---------------------------- MODULE Spec2Model ----------------------------
(***************************************************************************)
(* Model of the NovelAI <-> PixAI prompt converter.                        *)
(*                                                                         *)
(*   utils/converter.ts (latest revision, src/unnamed/part_002):           *)
(*       parseNovelAI, parsePixAI, segmentsToPixAI, segmentsToNovelAI      *)
(*   components/Converter.tsx (latest revision, src/unnamed/part_000):     *)
(*       the React state, the conversion effect and toggleDirection        *)
(*                                                                         *)
(* A text is a sequence of one-character strings.  A JavaScript number is  *)
(* a record [m, e] standing for the decimal m * 10^(-e), kept normalised   *)
(* (no trailing zero in the fraction), so that equal numbers are equal     *)
(* records.  A segment's random id is not modelled.                        *)
(***************************************************************************)
EXTENDS Integers, Sequences, FiniteSets, TLC

VARIABLES
    direction,            \* useState<ConversionDirection>
    sourceText,           \* useState(''): positive input (or combined NAI)
    sourceNegativeText,   \* useState(''): negative input (Pix only)
    resultText,           \* useState(''): positive result (or combined NAI)
    resultNegativeText,   \* useState(''): negative result (Pix only)
    segments,             \* useState<ParsedSegment[]>([])
    events,               \* number of user events so far (bounds the model)
    scan,                 \* the local variables of one scanner call in progress
    ser                   \* one serializer call: its argument and its result

vars == << direction, sourceText, sourceNegativeText, resultText,
           resultNegativeText, segments, events, scan, ser >>

uiVars == << direction, sourceText, sourceNegativeText, resultText,
             resultNegativeText, segments, events >>

-----------------------------------------------------------------------------
(* Bounds *)

\* longest scanner input, counted in pieces of ScanAPieces / ScanBPieces
MaxPieces == 4
\* number of user events (an edit of an input box, a clear, a toggle)
MaxEvents == 4
\* longest segment list handed to a serializer
MaxSegs == 2

-----------------------------------------------------------------------------
(* Texts *)

Digits == << "0", "1", "2", "3", "4", "5", "6", "7", "8", "9" >>

IsDigit(c) == \E d \in 1..10 : Digits[d] = c

DigitVal(c) == (CHOOSE d \in 1..10 : Digits[d] = c) - 1

IsSpace(c) == c = " "

RECURSIVE Concat(_)
\* the concatenation of a sequence of texts
Concat(ts) == IF ts = << >> THEN << >> ELSE Head(ts) \o Concat(Tail(ts))

\* text.slice(from) with from a 0-based index
Slice(t, from) == SubSeq(t, from + 1, Len(t))

\* does text t hold the literal lit at 1-based position p
HasAt(t, p, lit) ==
    /\ p + Len(lit) - 1 <= Len(t)
    /\ \A k \in 1..Len(lit) : t[p + k - 1] = lit[k]

RECURSIVE DigitRun(_, _)
\* number of consecutive digits of t from 1-based position p on (greedy \d*)
DigitRun(t, p) ==
    IF p <= Len(t) /\ IsDigit(t[p]) THEN 1 + DigitRun(t, p + 1) ELSE 0

RECURSIVE TrimLeft(_)
TrimLeft(t) ==
    IF t # << >> /\ IsSpace(Head(t)) THEN TrimLeft(Tail(t)) ELSE t

RECURSIVE TrimRight(_)
TrimRight(t) ==
    IF t # << >> /\ IsSpace(t[Len(t)])
    THEN TrimRight(SubSeq(t, 1, Len(t) - 1)) ELSE t

\* Trim as it would be if the text were used untrimmed
Trim_Untrimmed(t) == t

\* String.prototype.trim
Trim(t) == TrimRight(TrimLeft(t))

-----------------------------------------------------------------------------
(* Numbers *)

RECURSIVE Pow(_, _)
Pow(b, n) == IF n = 0 THEN 1 ELSE b * Pow(b, n - 1)

RECURSIVE Norm(_, _)
\* the number m * 10^(-e), normalised
Norm(m, e) ==
    IF m = 0 THEN [m |-> 0, e |-> 0]
    ELSE IF e > 0 /\ m % 10 = 0 THEN Norm(m \div 10, e - 1)
    ELSE [m |-> m, e |-> e]

One == Norm(1, 0)

Abs(x) == IF x < 0 THEN -x ELSE x

\* Math.abs
NumAbs(w) == [m |-> Abs(w.m), e |-> w.e]

\* w * -1
NumNeg(w) == [m |-> -(w.m), e |-> w.e]

\* w >= 0, w < 0
NumGeqZero(w) == w.m >= 0
NumLtZero(w) == w.m < 0

\* |a - b| <= 0.01
NumWithinHundredth(a, b) ==
    LET s == IF a.e > b.e THEN (IF a.e > 2 THEN a.e ELSE 2)
             ELSE (IF b.e > 2 THEN b.e ELSE 2)
        x == a.m * Pow(10, s - a.e)
        y == b.m * Pow(10, s - b.e)
    IN Abs(x - y) <= Pow(10, s - 2)

RECURSIVE DigitsValue(_)
\* the natural number a run of digits denotes
DigitsValue(ds) ==
    IF ds = << >> THEN 0
    ELSE 10 * DigitsValue(SubSeq(ds, 1, Len(ds) - 1)) + DigitVal(ds[Len(ds)])

\* parseFloat of a literal of the shape \d*(\.\d+)? that is not empty
ParseFloat(lit) ==
    LET k == DigitRun(lit, 1)
        int == SubSeq(lit, 1, k)
        frac == IF k < Len(lit) THEN SubSeq(lit, k + 2, Len(lit)) ELSE << >>
    IN Norm(DigitsValue(int) * Pow(10, Len(frac)) + DigitsValue(frac), Len(frac))

RECURSIVE NatToText(_)
NatToText(n) ==
    IF n < 10 THEN << Digits[n + 1] >>
    ELSE NatToText(n \div 10) \o << Digits[(n % 10) + 1] >>

RECURSIVE PadLeft(_, _)
PadLeft(t, n) == IF Len(t) >= n THEN t ELSE PadLeft(<< "0" >> \o t, n)

\* `${w}`: Number.prototype.toString of a number that needs no exponent
NumToText(w) ==
    LET a == Abs(w.m)
        p == Pow(10, w.e)
        sign == IF w.m < 0 THEN << "-" >> ELSE << >>
    IN IF w.e = 0 THEN sign \o NatToText(a)
       ELSE sign \o NatToText(a \div p) \o << "." >> \o PadLeft(NatToText(a % p), w.e)

\* Math.round(x * 100) for the rational x = num / den, num >= 0, den > 0:
\* the nearest integer, a tie going up
RoundHundredths(num, den) ==
    100 * (num \div den) + ((200 * (num % den) + den) \div (2 * den))

\* roundWeight(base * up^d1 * down^d2) with up = upN/upD and down = downN/downD
\* given as fractions and d1, d2 signed exponents
RoundWeight(base, upN, upD, d1, downN, downD, d2) ==
    LET n1 == IF d1 >= 0 THEN Pow(upN, d1) ELSE Pow(upD, -d1)
        q1 == IF d1 >= 0 THEN Pow(upD, d1) ELSE Pow(upN, -d1)
        n2 == IF d2 >= 0 THEN Pow(downN, d2) ELSE Pow(downD, -d2)
        q2 == IF d2 >= 0 THEN Pow(downD, d2) ELSE Pow(downN, -d2)
    IN Norm(RoundHundredths(base.m * n1 * n2, Pow(10, base.e) * q1 * q2), 2)


-----------------------------------------------------------------------------
(* ParsedSegment (types.ts) without its random id *)

Segment(type, raw, content, weight) ==
    [type |-> type, raw |-> raw, content |-> content, weight |-> weight]

\* finalWeight === 1.0 ? 'text' : 'weight'
TypeOf(w) == IF w = One THEN "text" ELSE "weight"

-----------------------------------------------------------------------------
(* parseNovelAI: the scanner of the NovelAI format *)

\* weightControlRegex = /^(\d*(?:\.\d+)?)?::/ matched against rem.
\* The result is [len, numStr]: len = match[0].length (0 when there is no
\* match) and numStr = match[1] (empty when the group took nothing).
\* The regex is deterministic: the digit runs are greedy and no shorter run
\* can be followed by "." or "::".
\* k is the length of the integer digits and j that of the fraction digits
\* (0 when no "." and digit follow).
WeightControlFrom(rem, k, j) ==
    IF j > 0 /\ HasAt(rem, k + j + 2, << ":", ":" >>)
    THEN [len |-> k + j + 3, numStr |-> SubSeq(rem, 1, k + j + 1)]
    ELSE IF HasAt(rem, k + 1, << ":", ":" >>)
    THEN [len |-> k + 2, numStr |-> SubSeq(rem, 1, k)]
    ELSE [len |-> 0, numStr |-> << >>]

\* the digits of a fraction ".ddd" at 1-based position p, 0 when there is none
FractionRun(t, p) == IF HasAt(t, p, << "." >>) THEN DigitRun(t, p + 1) ELSE 0

WeightControlMatch(rem) ==
    CHOOSE m \in { WeightControlFrom(rem, k, FractionRun(rem, k + 1)) :
                     k \in { DigitRun(rem, 1) } } : TRUE

\* the local variables of parseNovelAI on entry to its loop
StartA(text) ==
    [call |-> "parseNovelAI", pc |-> IF text = << >> THEN "done" ELSE "loop",
     text |-> text, i |-> 0, buffer |-> << >>,
     curlyDepth |-> 0, squareDepth |-> 0, activeBaseWeight |-> One,
     segments |-> << >>]

\* FinalWeightA as it would be under the additive formula, +0.1 per curly level and -0.1
\* per square level, rounded to 3 decimals
FinalWeightA_Additive(st) ==
    LET b == st.activeBaseWeight
        e == IF b.e > 1 THEN b.e ELSE 1
    IN Norm(b.m * Pow(10, e - b.e)
            + (st.curlyDepth - st.squareDepth) * Pow(10, e - 1), e)

\* the weight flush gives the buffered tag: 1.05 = 21/20 per curly level and
\* 0.95 = 19/20 per square level, times the base weight, rounded
FinalWeightA(st) ==
    RoundWeight(st.activeBaseWeight, 21, 20, st.curlyDepth, 19, 20, st.squareDepth)

\* flush(): emit the trimmed buffer, if it is not empty, and clear the buffer
FlushA(st) ==
    CHOOSE f \in
      { IF trimmed # << >>
        THEN [st EXCEPT !.segments = Append(@, Segment(TypeOf(w), trimmed, trimmed, w)),
                        !.buffer = << >>]
        ELSE [st EXCEPT !.buffer = << >>]
        : trimmed \in { Trim(st.buffer) }, w \in { FinalWeightA(st) } } : TRUE

MatchAt(st) == WeightControlMatch(Slice(st.text, st.i))

CharAt(st) == st.text[st.i + 1]

\* the base weight after a weight-control token; parseFloat of a matched
\* numStr is never NaN, so the isNaN guard always passes
BaseAfterToken(st, numStr) ==
    IF numStr # << >> THEN ParseFloat(numStr) ELSE One

\* WeightControlA as it would be if the buffer were flushed after the state is updated
WeightControlA_FlushAfter(st) ==
    CHOOSE f \in
      { FlushA(u) : u \in
          { [st EXCEPT !.activeBaseWeight = BaseAfterToken(st, match.numStr),
                       !.curlyDepth = 0,
                       !.squareDepth = 0,
                       !.i = @ + match.len]
            : match \in { MatchAt(st) } } } : TRUE

\* WeightControlA as it would be if the position advanced by the number alone
WeightControlA_NumberOnly(st) ==
    CHOOSE u \in
      { [FlushA(st) EXCEPT !.activeBaseWeight = BaseAfterToken(st, match.numStr),
                           !.curlyDepth = 0,
                           !.squareDepth = 0,
                           !.i = @ + Len(match.numStr)]
        : match \in { MatchAt(st) } } : TRUE

\* 1. a weight-control token "N::" or "::"
WeightControlA(st) ==
    CHOOSE u \in
      { [FlushA(st) EXCEPT !.activeBaseWeight = BaseAfterToken(st, match.numStr),
                           !.curlyDepth = 0,
                           !.squareDepth = 0,
                           !.i = @ + match.len]
        : match \in { MatchAt(st) } } : TRUE

\* CloseDepthA as it would be if the depth were floored at zero
CloseDepthA_Floored(d) == IF d - 1 > 0 THEN d - 1 ELSE 0

\* the depth a closing bracket leaves
CloseDepthA(d) == d - 1

\* 2. brackets and braces
OpenCurlyA(st) == [FlushA(st) EXCEPT !.curlyDepth = @ + 1, !.i = @ + 1]
CloseCurlyA(st) == [FlushA(st) EXCEPT !.curlyDepth = CloseDepthA(@), !.i = @ + 1]
OpenSquareA(st) == [FlushA(st) EXCEPT !.squareDepth = @ + 1, !.i = @ + 1]
CloseSquareA(st) == [FlushA(st) EXCEPT !.squareDepth = CloseDepthA(@), !.i = @ + 1]

\* 3. a comma
CommaA(st) == [FlushA(st) EXCEPT !.i = @ + 1]

\* 4. a normal character
NormalA(st) == [st EXCEPT !.buffer = Append(@, CharAt(st)), !.i = @ + 1]

\* the loop has ended: flush the remaining buffer and return
FinishA(st) == [FlushA(st) EXCEPT !.pc = "done"]

\* which branch the loop body takes
BranchA(st) ==
    IF st.i >= Len(st.text) THEN "finish"
    ELSE IF MatchAt(st).len > 0 THEN "token"
    ELSE IF CharAt(st) \in {"{", "}", "[", "]", ","} THEN CharAt(st)
    ELSE "normal"

\* one iteration of the while loop (or the flush that follows it)
BranchStepA(st, b) ==
    CASE b = "finish" -> FinishA(st)
      [] b = "token" -> WeightControlA(st)
      [] b = "{" -> OpenCurlyA(st)
      [] b = "}" -> CloseCurlyA(st)
      [] b = "[" -> OpenSquareA(st)
      [] b = "]" -> CloseSquareA(st)
      [] b = "," -> CommaA(st)
      [] OTHER -> NormalA(st)

StepA(st) == CHOOSE nxt \in { BranchStepA(st, b) : b \in { BranchA(st) } } : TRUE

RECURSIVE RunA(_)
\* the loop run to its end: the state after each iteration is computed once
\* and handed on as a value
RunA(st) ==
    IF st.pc = "done" THEN st
    ELSE CHOOSE end \in { RunA(nxt) : nxt \in { StepA(st) } } : TRUE

ParseNovelAI(text) == RunA(StartA(text)).segments

-----------------------------------------------------------------------------
(* parsePixAI: the scanner of the PixAI / Stable Diffusion format *)

RECURSIVE EscapePixAI(_)
\* text.replace(/([()])/g, '\\$1')
EscapePixAI(t) ==
    IF t = << >> THEN << >>
    ELSE IF Head(t) \in {"(", ")"} THEN << "\\", Head(t) >> \o EscapePixAI(Tail(t))
    ELSE << Head(t) >> \o EscapePixAI(Tail(t))

RECURSIVE UnescapePixAI(_)
\* text.replace(/\\([()])/g, '$1')
UnescapePixAI(t) ==
    IF t = << >> THEN << >>
    ELSE IF Len(t) >= 2 /\ t[1] = "\\" /\ t[2] \in {"(", ")"}
    THEN << t[2] >> \o UnescapePixAI(SubSeq(t, 3, Len(t)))
    ELSE << Head(t) >> \o UnescapePixAI(Tail(t))

RECURSIVE ContentRun(_, _)
\* length of the greedy match of (?:[^:()\\]|\\.)* from 1-based position p
ContentRun(t, p) ==
    IF p > Len(t) THEN 0
    ELSE IF t[p] = "\\" THEN (IF p + 1 <= Len(t) THEN 2 + ContentRun(t, p + 2) ELSE 0)
    ELSE IF t[p] \in {":", "(", ")"} THEN 0
    ELSE 1 + ContentRun(t, p + 1)

\* explicitWeightRegex = /^\(((?:[^:()\\]|\\.)+):(\d+(?:\.\d+)?)\)/ matched
\* against rem, which starts with "(".  The result is [len, content, weight]:
\* len = match[0].length (0 when there is no match), content = match[1],
\* weight = match[2].  No shorter content can be followed by ":", and no
\* shorter number by ")", so the greedy match is the only one.
\* n is the length of the content, k that of the integer digits and j that
\* of the fraction digits (0 when no "." and digit follow).
NoMatch == [len |-> 0, content |-> << >>, weight |-> << >>]

ExplicitWeightFrom(rem, n, k, j) ==
    IF ~(HasAt(rem, 1, << "(" >>) /\ n > 0 /\ HasAt(rem, n + 2, << ":" >>) /\ k > 0)
    THEN NoMatch
    ELSE IF j > 0 /\ HasAt(rem, n + k + j + 4, << ")" >>)
    THEN [len |-> n + k + j + 4, content |-> SubSeq(rem, 2, n + 1),
          weight |-> SubSeq(rem, n + 3, n + k + j + 3)]
    ELSE IF HasAt(rem, n + k + 3, << ")" >>)
    THEN [len |-> n + k + 3, content |-> SubSeq(rem, 2, n + 1),
          weight |-> SubSeq(rem, n + 3, n + k + 2)]
    ELSE NoMatch

ExplicitWeightMatch(rem) ==
    CHOOSE m \in
      { CHOOSE mk \in { ExplicitWeightFrom(rem, n, k, FractionRun(rem, n + k + 3)) :
                          k \in { DigitRun(rem, n + 3) } } : TRUE
        : n \in { ContentRun(rem, 2) } } : TRUE

\* the local variables of parsePixAI on entry to its loop
StartB(text) ==
    [call |-> "parsePixAI", pc |-> IF text = << >> THEN "done" ELSE "loop",
     text |-> text, i |-> 0, buffer |-> << >>,
     parenDepth |-> 0, squareDepth |-> 0,
     segments |-> << >>]

\* the weight flush() gives the buffered tag (it is never called with an
\* override): 1.1 = 11/10 per paren level and 0.9 = 9/10 per square level
FinalWeightB(st) ==
    RoundWeight(One, 11, 10, st.parenDepth, 9, 10, st.squareDepth)

\* flush(): emit the trimmed buffer, if it is not empty, and clear the buffer
FlushB(st) ==
    CHOOSE f \in
      { IF trimmed # << >>
        THEN [st EXCEPT !.segments =
                  Append(@, Segment(TypeOf(w), trimmed, UnescapePixAI(trimmed), w)),
                        !.buffer = << >>]
        ELSE [st EXCEPT !.buffer = << >>]
        : trimmed \in { Trim(st.buffer) }, w \in { FinalWeightB(st) } } : TRUE

ExplicitAt(st) == ExplicitWeightMatch(Slice(st.text, st.i))

\* OverrideWeight as it would be if the override were multiplied by the ambient factor
OverrideWeight_TimesAmbient(st, lit) ==
    RoundWeight(ParseFloat(lit), 11, 10, st.parenDepth, 9, 10, st.squareDepth)

\* the weight of the segment an explicit (tag:w) adds
OverrideWeight(st, lit) == ParseFloat(lit)

\* 1. an escaped character: both characters go to the buffer
EscapeB(st) ==
    [st EXCEPT !.buffer = @ \o << st.text[st.i + 1], st.text[st.i + 2] >>,
               !.i = @ + 2]

\* 2. explicit weight syntax (tag:1.5): flush, then add the tag directly
ExplicitB(st) ==
    CHOOSE u \in
      { [FlushB(st) EXCEPT !.segments =
            Append(@, Segment("weight", SubSeq(st.text, st.i + 1, st.i + match.len),
                              UnescapePixAI(Trim(match.content)),
                              OverrideWeight(st, match.weight))),
                           !.i = @ + match.len]
        : match \in { ExplicitAt(st) } } : TRUE

\* CloseDepthB as it would be without the floor at zero
CloseDepthB_NoFloor(d) == d - 1

\* the depth a closing bracket leaves
CloseDepthB(d) == IF d - 1 > 0 THEN d - 1 ELSE 0

\* 3. brackets acting as modifiers
OpenParenB(st) == [FlushB(st) EXCEPT !.parenDepth = @ + 1, !.i = @ + 1]
CloseParenB(st) == [FlushB(st) EXCEPT !.parenDepth = CloseDepthB(@), !.i = @ + 1]
OpenSquareB(st) == [FlushB(st) EXCEPT !.squareDepth = @ + 1, !.i = @ + 1]
CloseSquareB(st) == [FlushB(st) EXCEPT !.squareDepth = CloseDepthB(@), !.i = @ + 1]

\* CommaB as it would be if a comma closed the open brackets
CommaB_ClosesBrackets(st) ==
    [FlushB(st) EXCEPT !.parenDepth = 0, !.squareDepth = 0, !.i = @ + 1]

\* 4. a comma
CommaB(st) == [FlushB(st) EXCEPT !.i = @ + 1]

\* 5. a normal character (a backslash that ends the text is one)
NormalB(st) == [st EXCEPT !.buffer = Append(@, CharAt(st)), !.i = @ + 1]

\* the loop has ended: flush the remaining buffer and return
FinishB(st) == [FlushB(st) EXCEPT !.pc = "done"]

\* BranchB as it would be if only an escaped parenthesis were taken as an escape
BranchB_EscapeParensOnly(st) ==
    IF st.i >= Len(st.text) THEN "finish"
    ELSE IF CharAt(st) = "\\" /\ st.i + 1 < Len(st.text)
            /\ st.text[st.i + 2] \in {"(", ")"} THEN "escape"
    ELSE IF CharAt(st) = "(" /\ ExplicitAt(st).len > 0 THEN "explicit"
    ELSE IF CharAt(st) \in {"(", ")", "[", "]", ","} THEN CharAt(st)
    ELSE "normal"

\* which branch the loop body takes
BranchB(st) ==
    IF st.i >= Len(st.text) THEN "finish"
    ELSE IF CharAt(st) = "\\" /\ st.i + 1 < Len(st.text) THEN "escape"
    ELSE IF CharAt(st) = "(" /\ ExplicitAt(st).len > 0 THEN "explicit"
    ELSE IF CharAt(st) \in {"(", ")", "[", "]", ","} THEN CharAt(st)
    ELSE "normal"

\* one iteration of the while loop (or the flush that follows it)
BranchStepB(st, b) ==
    CASE b = "finish" -> FinishB(st)
      [] b = "escape" -> EscapeB(st)
      [] b = "explicit" -> ExplicitB(st)
      [] b = "(" -> OpenParenB(st)
      [] b = ")" -> CloseParenB(st)
      [] b = "[" -> OpenSquareB(st)
      [] b = "]" -> CloseSquareB(st)
      [] b = "," -> CommaB(st)
      [] OTHER -> NormalB(st)

StepB(st) == CHOOSE nxt \in { BranchStepB(st, b) : b \in { BranchB(st) } } : TRUE

RECURSIVE RunB(_)
\* the loop run to its end: the state after each iteration is computed once
\* and handed on as a value
RunB(st) ==
    IF st.pc = "done" THEN st
    ELSE CHOOSE end \in { RunB(nxt) : nxt \in { StepB(st) } } : TRUE

ParsePixAI(text) == RunB(StartB(text)).segments

-----------------------------------------------------------------------------
(* The serializers *)

RECURSIVE JoinComma(_)
\* Array.prototype.join(', ')
JoinComma(ts) ==
    IF ts = << >> THEN << >>
    ELSE IF Len(ts) = 1 THEN ts[1]
    ELSE ts[1] \o << ",", " " >> \o JoinComma(Tail(ts))

\* seg.weight || 1.0: a weight of 0 is falsy
WeightOrOne(w) == IF w.m = 0 THEN One ELSE w

\* the weight segmentsToPixAI renders
PixWeight(seg) == WeightOrOne(seg.weight)

\* the .filter of segmentsToPixAI
HasContent(seg) == Trim(seg.content) # << >>

\* the .map callback of segmentsToPixAI
RenderPixAI(seg) ==
    CHOOSE r \in
      { IF w = One THEN content
        ELSE << "(" >> \o content \o << ":" >> \o NumToText(w) \o << ")" >>
        : w \in { PixWeight(seg) }, content \in { EscapePixAI(seg.content) } } : TRUE

RECURSIVE RenderAllPixAI(_)
RenderAllPixAI(segs) ==
    IF segs = << >> THEN << >>
    ELSE << RenderPixAI(Head(segs)) >> \o RenderAllPixAI(Tail(segs))

SegmentsToPixAI(segs) == JoinComma(RenderAllPixAI(SelectSeq(segs, HasContent)))

\* RenderNovelAI as it would be if the content were escaped as for PixAI
RenderNovelAI_Escaped(seg) ==
    IF seg.type = "text" \/ seg.weight = One
    THEN (IF seg.content # << >> THEN EscapePixAI(seg.content) ELSE seg.raw)
    ELSE NumToText(seg.weight) \o << ":", ":" >> \o EscapePixAI(seg.content)
            \o << ":", ":" >>

\* the .map callback of segmentsToNovelAI; seg.content || seg.raw takes raw
\* when the content is the empty string
RenderNovelAI(seg) ==
    IF seg.type = "text" \/ seg.weight = One
    THEN (IF seg.content # << >> THEN seg.content ELSE seg.raw)
    ELSE NumToText(seg.weight) \o << ":", ":" >> \o seg.content \o << ":", ":" >>

SegmentsToNovelAI(segs) ==
    JoinComma([k \in 1..Len(segs) |-> RenderNovelAI(segs[k])])

-----------------------------------------------------------------------------
(* Inputs *)

\* the texts made of at most n pieces
TextsOf(pieces, n) ==
    { Concat(ps) : ps \in UNION { [1..k -> pieces] : k \in 0..n } }

\* pieces of NovelAI input: weight-control tokens, their fragments, brackets,
\* a comma, a blank and a tag character
ScanAPieces ==
    { << "2", ":", ":" >>, << ":", ":" >>, << "2" >>, << "." >>, << ":" >>,
      << "t" >>, << " " >>, << "," >>, << "{" >>, << "}" >>, << "[" >>, << "]" >> }

\* pieces of PixAI input: explicit weights, their fragments, escapes,
\* brackets, a comma, a blank and a tag character
ScanBPieces ==
    { << ":", "2", ")" >>, << ":", "1", ".", "5", ")" >>, << ":", "1", ")" >>,
      << ":" >>, << "2" >>,
      << "\\" >>, << "t" >>, << " " >>, << "," >>,
      << "(" >>, << ")" >>, << "[" >>, << "]" >> }

Idle == [call |-> "none", pc |-> "idle"]

\* the React state after the first render and its effect
InitUI ==
    /\ direction = "NAI_TO_PIX"
    /\ sourceText = << >>
    /\ sourceNegativeText = << >>
    /\ resultText = << >>
    /\ resultNegativeText = << >>
    /\ segments = << >>
    /\ events = 0

-----------------------------------------------------------------------------
(* Converter: the conversion effect and the event handlers *)

\* .map(s => ({ ...s, weight: Math.abs(s.weight!) })): new segments, the
\* parsed ones are not changed
FlipToPositive(segs) ==
    [k \in 1..Len(segs) |-> [segs[k] EXCEPT !.weight = NumAbs(@)]]

IsPositiveSeg(s) == NumGeqZero(s.weight)
IsNegativeSeg(s) == NumLtZero(s.weight)

\* .map(s => ({ ...s, weight: (s.weight || 1.0) * -1 }))
ForceNegative(segs) ==
    [k \in 1..Len(segs) |-> [segs[k] EXCEPT !.weight = NumNeg(WeightOrOne(@))]]

\* the effect's NAI_TO_PIX branch
ConvertNaiToPix(src) ==
    CHOOSE out \in
      { [resultText |-> SegmentsToPixAI(SelectSeq(parsed, IsPositiveSeg)),
         resultNegativeText |->
             SegmentsToPixAI(FlipToPositive(SelectSeq(parsed, IsNegativeSeg))),
         segments |-> parsed]
        : parsed \in { ParseNovelAI(src) } } : TRUE

\* the effect's PIX_TO_NAI branch
AllSegments(positiveSegs, negativeSegsRaw) ==
    positiveSegs \o ForceNegative(negativeSegsRaw)

ConvertPixToNai(src, neg) ==
    CHOOSE out \in
      { [resultText |-> SegmentsToNovelAI(allSegments),
         resultNegativeText |-> << >>,
         segments |-> allSegments]
        : allSegments \in { AllSegments(ParsePixAI(t), ParsePixAI(neg)) : t \in { src } } }
      : TRUE

\* what the effect computes from its dependencies
Convert(dir, src, neg) ==
    IF dir = "NAI_TO_PIX" THEN ConvertNaiToPix(src) ELSE ConvertPixToNai(src, neg)

\* Render as it would be if the effect did not hand the segments on
Render_StaleSegments(dir, src, neg) ==
    \E out \in { Convert(dir, src, neg) } :
       /\ direction' = dir
       /\ sourceText' = src
       /\ sourceNegativeText' = neg
       /\ resultText' = out.resultText
       /\ resultNegativeText' = out.resultNegativeText
       /\ segments' = segments
       /\ events' = events + 1
       /\ UNCHANGED << scan, ser >>

\* a handler has set the state to (dir, src, neg); the effect then runs
\* before the next event
Render(dir, src, neg) ==
    \E out \in { Convert(dir, src, neg) } :
       /\ direction' = dir
       /\ sourceText' = src
       /\ sourceNegativeText' = neg
       /\ resultText' = out.resultText
       /\ resultNegativeText' = out.resultNegativeText
       /\ segments' = out.segments
       /\ events' = events + 1
       /\ UNCHANGED << scan, ser >>

\* what the user adds to an input box in one edit
UIPieces ==
    { << "t" >>, << " " >>, << "," >>, << "-" >>, << "2", ":", ":" >>,
      << "(" >>, << ":", "2", ")" >>, << "\\" >> }

\* onChange of the source textarea
EditSource ==
    /\ events < MaxEvents
    /\ \E p \in UIPieces : Render(direction, sourceText \o p, sourceNegativeText)

\* onClear of the source box
ClearSource ==
    /\ events < MaxEvents
    /\ sourceText # << >>
    /\ Render(direction, << >>, sourceNegativeText)

\* onChange of the negative source textarea, shown only for PIX_TO_NAI
EditNegative ==
    /\ events < MaxEvents
    /\ direction = "PIX_TO_NAI"
    /\ \E p \in UIPieces : Render(direction, sourceText, sourceNegativeText \o p)

\* onClear of the negative source box
ClearNegative ==
    /\ events < MaxEvents
    /\ direction = "PIX_TO_NAI"
    /\ sourceNegativeText # << >>
    /\ Render(direction, sourceText, << >>)

OtherDirection(dir) == IF dir = "NAI_TO_PIX" THEN "PIX_TO_NAI" ELSE "NAI_TO_PIX"

\* ToggleDirection as it would be if the source fields were kept
ToggleDirection_KeepsSource ==
    /\ events < MaxEvents
    /\ Render(OtherDirection(direction), sourceText, sourceNegativeText)

\* onClick of the direction button
ToggleDirection ==
    /\ events < MaxEvents
    /\ Render(OtherDirection(direction), resultText, resultNegativeText)

Init ==
    /\ InitUI
    /\ scan = Idle
    /\ ser = Idle

Next ==
    \/ EditSource
    \/ ClearSource
    \/ EditNegative
    \/ ClearNegative
    \/ ToggleDirection

Spec == Init /\ [][Next]_vars

-----------------------------------------------------------------------------
(* SpecScanA: one call of parseNovelAI, an iteration of its loop at a time *)

InitScanA ==
    /\ InitUI
    /\ ser = Idle
    /\ scan \in { StartA(t) : t \in TextsOf(ScanAPieces, MaxPieces) }

InLoopA(b) ==
    /\ scan.call = "parseNovelAI"
    /\ scan.pc = "loop"
    /\ BranchA(scan) = b

ScanAWeightControl ==
    /\ InLoopA("token")
    /\ scan' = WeightControlA(scan)
    /\ UNCHANGED << uiVars, ser >>

ScanAOpenCurly ==
    /\ InLoopA("{")
    /\ scan' = OpenCurlyA(scan)
    /\ UNCHANGED << uiVars, ser >>

ScanACloseCurly ==
    /\ InLoopA("}")
    /\ scan' = CloseCurlyA(scan)
    /\ UNCHANGED << uiVars, ser >>

ScanAOpenSquare ==
    /\ InLoopA("[")
    /\ scan' = OpenSquareA(scan)
    /\ UNCHANGED << uiVars, ser >>

ScanACloseSquare ==
    /\ InLoopA("]")
    /\ scan' = CloseSquareA(scan)
    /\ UNCHANGED << uiVars, ser >>

ScanAComma ==
    /\ InLoopA(",")
    /\ scan' = CommaA(scan)
    /\ UNCHANGED << uiVars, ser >>

ScanANormal ==
    /\ InLoopA("normal")
    /\ scan' = NormalA(scan)
    /\ UNCHANGED << uiVars, ser >>

ScanAFinish ==
    /\ InLoopA("finish")
    /\ scan' = FinishA(scan)
    /\ UNCHANGED << uiVars, ser >>

NextScanA ==
    \/ ScanAWeightControl
    \/ ScanAOpenCurly
    \/ ScanACloseCurly
    \/ ScanAOpenSquare
    \/ ScanACloseSquare
    \/ ScanAComma
    \/ ScanANormal
    \/ ScanAFinish

SpecScanA == InitScanA /\ [][NextScanA]_vars

-----------------------------------------------------------------------------
(* SpecScanB: one call of parsePixAI, an iteration of its loop at a time *)

InitScanB ==
    /\ InitUI
    /\ ser = Idle
    /\ scan \in { StartB(t) : t \in TextsOf(ScanBPieces, MaxPieces) }

InLoopB(b) ==
    /\ scan.call = "parsePixAI"
    /\ scan.pc = "loop"
    /\ BranchB(scan) = b

ScanBEscape ==
    /\ InLoopB("escape")
    /\ scan' = EscapeB(scan)
    /\ UNCHANGED << uiVars, ser >>

ScanBExplicit ==
    /\ InLoopB("explicit")
    /\ scan' = ExplicitB(scan)
    /\ UNCHANGED << uiVars, ser >>

ScanBOpenParen ==
    /\ InLoopB("(")
    /\ scan' = OpenParenB(scan)
    /\ UNCHANGED << uiVars, ser >>

ScanBCloseParen ==
    /\ InLoopB(")")
    /\ scan' = CloseParenB(scan)
    /\ UNCHANGED << uiVars, ser >>

ScanBOpenSquare ==
    /\ InLoopB("[")
    /\ scan' = OpenSquareB(scan)
    /\ UNCHANGED << uiVars, ser >>

ScanBCloseSquare ==
    /\ InLoopB("]")
    /\ scan' = CloseSquareB(scan)
    /\ UNCHANGED << uiVars, ser >>

ScanBComma ==
    /\ InLoopB(",")
    /\ scan' = CommaB(scan)
    /\ UNCHANGED << uiVars, ser >>

ScanBNormal ==
    /\ InLoopB("normal")
    /\ scan' = NormalB(scan)
    /\ UNCHANGED << uiVars, ser >>

ScanBFinish ==
    /\ InLoopB("finish")
    /\ scan' = FinishB(scan)
    /\ UNCHANGED << uiVars, ser >>

NextScanB ==
    \/ ScanBEscape
    \/ ScanBExplicit
    \/ ScanBOpenParen
    \/ ScanBCloseParen
    \/ ScanBOpenSquare
    \/ ScanBCloseSquare
    \/ ScanBComma
    \/ ScanBNormal
    \/ ScanBFinish

SpecScanB == InitScanB /\ [][NextScanB]_vars

-----------------------------------------------------------------------------
(* SpecSer: one call of a serializer on a segment list *)

\* segment contents: a tag, a tag that ends with a digit, two words, a tag
\* in parentheses, a blank, the empty string
SerContents ==
    { << "t" >>, << "t", "2" >>, << "t", " ", "t" >>, << "(", "t", ")" >>,
      << " " >>, << >> }

\* segment weights: 0, 1, 2, 1.25 and -1
SerWeights == { Norm(0, 0), One, Norm(2, 0), Norm(125, 2), Norm(-1, 0) }

SerSegments ==
    { Segment(type, IF content = << >> THEN << "r" >> ELSE content, content, weight) :
        type \in {"text", "weight"}, content \in SerContents, weight \in SerWeights }

SerInputs == UNION { [1..n -> SerSegments] : n \in 0..MaxSegs }

InitSer ==
    /\ InitUI
    /\ scan = Idle
    /\ ser \in { [call |-> c, pc |-> "call", input |-> segs, output |-> << >>] :
                   c \in {"segmentsToPixAI", "segmentsToNovelAI"}, segs \in SerInputs }

SerPixAI ==
    /\ ser.call = "segmentsToPixAI"
    /\ ser.pc = "call"
    /\ ser' = [ser EXCEPT !.output = SegmentsToPixAI(ser.input), !.pc = "done"]
    /\ UNCHANGED << uiVars, scan >>

SerNovelAI ==
    /\ ser.call = "segmentsToNovelAI"
    /\ ser.pc = "call"
    /\ ser' = [ser EXCEPT !.output = SegmentsToNovelAI(ser.input), !.pc = "done"]
    /\ UNCHANGED << uiVars, scan >>

NextSer == SerPixAI \/ SerNovelAI

SpecSer == InitSer /\ [][NextSer]_vars

-----------------------------------------------------------------------------
(* SpecScan: one call of either scanner *)

InitScan == InitScanA \/ InitScanB

NextScan == NextScanA \/ NextScanB

SpecScan == InitScan /\ [][NextScan]_vars

-----------------------------------------------------------------------------
(* Properties of the scanners *)

InA == scan.call = "parseNovelAI"
InB == scan.call = "parsePixAI"

\* the step from scan to scan' emitted exactly one segment
EmittedOne == Len(scan'.segments) = Len(scan.segments) + 1

LastSeg(st) == st.segments[Len(st.segments)]

\* the number hundredths / 100
Hundredths(h) == Norm(h, 2)

\* w is x = num / den rounded to 2 decimals: a whole number of hundredths
\* at most half a hundredth away from x
IsRounded(w, num, den) ==
    /\ w.e <= 2
    /\ 2 * Abs(w.m * Pow(10, 2 - w.e) * den - 100 * num) <= den

PosPart(d) == IF d > 0 THEN d ELSE 0
NegPart(d) == IF d < 0 THEN -d ELSE 0

\* C4: in scan_b every segment an explicit override (tag:w) produced (its raw
\* text is the whole "(tag:w)" token) has exactly the weight written after
\* the last colon of the token, whatever the ambient depths were; "((t:1.5"
\* gives t the weight 1.5 and not 1.5 * 1.1^2.
OverrideLiteral(raw) ==
    LET colon == CHOOSE k \in 1..Len(raw) :
                    /\ raw[k] = ":"
                    /\ \A j \in (k + 1)..Len(raw) : raw[j] # ":"
    IN SubSeq(raw, colon + 1, Len(raw) - 1)

C4_OverrideIsLiteral ==
    InB =>
      /\ \A k \in 1..Len(scan.segments) :
            LET seg == scan.segments[k]
            IN seg.raw[1] = "(" =>
                 /\ seg.weight = ParseFloat(OverrideLiteral(seg.raw))
                 /\ NumToText(seg.weight) = OverrideLiteral(seg.raw)
      /\ (scan.pc = "done" /\ scan.text = << "(", "(", "t", ":", "1", ".", "5", ")" >>)
            => scan.segments = << Segment("weight", << "(", "t", ":", "1", ".", "5", ")" >>,
                                          << "t" >>, Norm(15, 1)) >>

C4_Witness ==
    /\ InB
    /\ scan.parenDepth = 1
    /\ scan.segments # << >>
    /\ LastSeg(scan).raw = << "(", "t", ":", "1", ".", "5", ")" >>
    /\ LastSeg(scan).weight = Norm(15, 1)

\* C5: in scan_b both depths are never negative, in any state of the scan; a
\* closing bracket met at depth 0 leaves the depth at 0.
C5_DepthsNeverNegative ==
    InB => scan.parenDepth >= 0 /\ scan.squareDepth >= 0

C5_Witness ==
    /\ InB
    /\ scan.pc = "done"
    /\ scan.text = << ")", "]", "t" >>
    /\ scan.parenDepth = 0
    /\ scan.squareDepth = 0
    /\ scan.segments = << Segment("text", << "t" >>, << "t" >>, One) >>

\* C6: in scan_a a closing "}" or "]" lowers its depth by exactly 1, with no
\* floor, and a weight-control token sets both depths to 0; "2::t}}" ends
\* with curlyDepth = -2 after emitting t with weight 2.
C6_NoFloorInA ==
    [][ /\ InLoopA("}") => scan'.curlyDepth = scan.curlyDepth - 1
        /\ InLoopA("]") => scan'.squareDepth = scan.squareDepth - 1
        /\ InLoopA("token") => scan'.curlyDepth = 0 /\ scan'.squareDepth = 0
        /\ (scan'.pc = "done" /\ scan.text = << "2", ":", ":", "t", "}", "}" >>)
              => /\ scan'.curlyDepth = -2
                 /\ scan'.segments = << Segment("weight", << "t" >>, << "t" >>, Norm(2, 0)) >>
      ]_vars

C6_Witness ==
    /\ InA
    /\ scan.pc = "done"
    /\ scan.text = << "2", ":", ":", "t", "}", "}" >>
    /\ scan.curlyDepth = -2
    /\ Len(scan.segments) = 1
    /\ scan.segments[1].weight = Norm(2, 0)

\* C7: a tag flushed by scan_a gets base_weight * 1.05^curly_depth *
\* 0.95^square_depth rounded to 2 decimals, and a tag flushed by scan_b gets
\* 1.1^paren_depth * 0.9^square_depth rounded to 2 decimals, the depths being
\* those of the state the flush runs in; "{{t" gives 1.1, "[t" gives 0.95.
C7_FlushA ==
    LET c == scan.curlyDepth
        q == scan.squareDepth
        b == scan.activeBaseWeight
    IN IsRounded(LastSeg(scan').weight,
                 b.m * Pow(21, PosPart(c)) * Pow(20, NegPart(c))
                     * Pow(19, PosPart(q)) * Pow(20, NegPart(q)),
                 Pow(10, b.e) * Pow(20, PosPart(c)) * Pow(21, NegPart(c))
                     * Pow(20, PosPart(q)) * Pow(19, NegPart(q)))

C7_FlushB ==
    LET p == scan.parenDepth
        q == scan.squareDepth
    IN IsRounded(LastSeg(scan').weight,
                 Pow(11, p) * Pow(9, q), Pow(10, p) * Pow(10, q))

C7_Examples ==
    /\ (InA /\ scan.text = << "{", "{", "t" >>) => LastSeg(scan').weight = Hundredths(110)
    /\ (InA /\ scan.text = << "[", "t", "]" >>) => LastSeg(scan').weight = Hundredths(95)
    /\ (InB /\ scan.text = << "(", "(", "t" >>) => LastSeg(scan').weight = Hundredths(121)
    /\ (InB /\ scan.text = << "[", "t", "]" >>) => LastSeg(scan').weight = Hundredths(90)

C7_MultiplicativeWeights ==
    [][ /\ (InA /\ EmittedOne) => C7_FlushA
        /\ (InB /\ EmittedOne /\ BranchB(scan) # "explicit") => C7_FlushB
        /\ EmittedOne => C7_Examples
      ]_vars

C7_Witness ==
    /\ InA
    /\ scan.text = << "{", "{", "t" >>
    /\ scan.pc = "done"
    /\ scan.segments = << Segment("weight", << "t" >>, << "t" >>, Hundredths(110)) >>

\* C8: in scan_a a weight-control token first flushes the buffered tag with
\* the weight of the state before the token, then sets base_weight to the
\* token's number, or to 1 for a bare "::"; a token met with an empty buffer
\* emits nothing; "2::t::t" yields t with weight 2, then t with weight 1.
TokenText == SubSeq(scan.text, scan.i + 1, scan'.i - 2)

C8_Token ==
    /\ scan'.segments =
          IF Trim(scan.buffer) = << >> THEN scan.segments
          ELSE Append(scan.segments,
                      Segment(TypeOf(FinalWeightA(scan)), Trim(scan.buffer),
                              Trim(scan.buffer), FinalWeightA(scan)))
    /\ scan'.buffer = << >>
    /\ scan'.i >= scan.i + 2
    /\ HasAt(scan.text, scan'.i - 1, << ":", ":" >>)
    /\ scan'.activeBaseWeight =
          IF TokenText = << >> THEN One ELSE ParseFloat(TokenText)

C8_WeightControlToken ==
    [][ /\ InLoopA("token") => C8_Token
        /\ (scan'.pc = "done" /\ scan.text = << "2", ":", ":", "t", ":", ":", "t" >>)
              => scan'.segments = << Segment("weight", << "t" >>, << "t" >>, Norm(2, 0)),
                                     Segment("text", << "t" >>, << "t" >>, One) >>
      ]_vars

C8_Witness ==
    /\ InA
    /\ scan.pc = "done"
    /\ scan.text = << "2", ":", ":", "t", ":", ":", "t" >>
    /\ Len(scan.segments) = 2
    /\ scan.segments[1].weight = Norm(2, 0)
    /\ scan.segments[2].weight = One

\* C9: in scan_b a backslash followed by any character goes to the buffer as
\* the two characters, and the step changes neither depth and emits no
\* segment, so the escaped character is neither a bracket, a comma nor the
\* start of an override; "\" c "t" yields one plain segment for every c.
C9_EscapeStep ==
    /\ scan'.buffer = scan.buffer \o << "\\", scan.text[scan.i + 2] >>
    /\ scan'.i = scan.i + 2
    /\ scan'.parenDepth = scan.parenDepth
    /\ scan'.squareDepth = scan.squareDepth
    /\ scan'.segments = scan.segments

C9_EscapeIsLiteral ==
    [][ /\ ( /\ InB
             /\ scan.pc = "loop"
             /\ scan.i + 1 < Len(scan.text)
             /\ scan.text[scan.i + 1] = "\\" ) => C9_EscapeStep
        /\ ( /\ InB
             /\ scan'.pc = "done"
             /\ Len(scan.text) = 3
             /\ scan.text[1] = "\\"
             /\ scan.text[3] = "t" )
              => /\ Len(scan'.segments) = 1
                 /\ scan'.segments[1].type = "text"
                 /\ scan'.segments[1].weight = One
                 /\ scan'.segments[1].raw = scan.text
                 /\ scan.text[2] = "(" => scan'.segments[1].content = << "(", "t" >>
      ]_vars

C9_Witness ==
    /\ InB
    /\ scan.pc = "done"
    /\ scan.text = << "\\", "(", "t", ":", "2", ")" >>
    /\ scan.parenDepth = 0
    /\ Len(scan.segments) = 1
    /\ scan.segments[1].content = << "(", "t", ":", "2" >>
    /\ scan.segments[1].weight = One

-----------------------------------------------------------------------------
(* Properties of the conversion and of the serializers *)

\* a text made of tag characters only, and at least one
IsPlainTag(t) == t # << >> /\ \A k \in 1..Len(t) : t[k] = "t"

\* the text is "-", a weight-control token with a number, and a plain tag
IsNegativeTagText(t) ==
    /\ t # << >>
    /\ t[1] = "-"
    /\ WeightControlMatch(Tail(t)).len > 0
    /\ WeightControlMatch(Tail(t)).numStr # << >>
    /\ IsPlainTag(SubSeq(t, WeightControlMatch(Tail(t)).len + 2, Len(t)))

NegativeTagNumber(t) == ParseFloat(WeightControlMatch(Tail(t)).numStr)

NegativeTagName(t) == SubSeq(t, WeightControlMatch(Tail(t)).len + 2, Len(t))

\* C1: in direction A -> B a tag written with a negative weight token,
\* "-N::tag", goes to the negative result with weight N and does not appear in
\* the positive result.
C1_NegativeTagPartitioned ==
    (direction = "NAI_TO_PIX" /\ IsNegativeTagText(sourceText)) =>
        /\ resultNegativeText =
              SegmentsToPixAI(<< Segment("weight", NegativeTagName(sourceText),
                                         NegativeTagName(sourceText),
                                         NegativeTagNumber(sourceText)) >>)
        /\ resultText = << >>

\* the rendering -w::tag:: the merge is to give a negative-field segment
NegativeToken(seg) ==
    << "-" >> \o NumToText(seg.weight) \o << ":", ":" >> \o seg.content \o << ":", ":" >>

\* C2: in direction B -> A every segment scanned from the negative field is
\* rendered in the combined result as -w::tag::, w its scanned weight, after
\* the renderings of the positive field's segments.
C2_NegativeFieldMerged ==
    direction = "PIX_TO_NAI" =>
        resultText =
            JoinComma([k \in 1..Len(ParsePixAI(sourceText)) |->
                          RenderNovelAI(ParsePixAI(sourceText)[k])]
                      \o [k \in 1..Len(ParsePixAI(sourceNegativeText)) |->
                          NegativeToken(ParsePixAI(sourceNegativeText)[k])])

SerDone(call) == ser.call = call /\ ser.pc = "done"

\* the weight is written in the override form with at most 2 decimals
IsTwoDecimalWeight(w) == w.m >= 0 /\ w.e <= 2

\* C3: for a list of segments with plain tags as contents and weights in the
\* 2-decimal override form, scanning the Format B serialization gives back as
\* many segments, each with the weight (within 0.01) of the segment at its
\* position.
C3_RoundTripWeightsB ==
    ( /\ SerDone("segmentsToPixAI")
      /\ \A k \in 1..Len(ser.input) :
            /\ IsPlainTag(ser.input[k].content)
            /\ IsTwoDecimalWeight(ser.input[k].weight) )
      => \E back \in { ParsePixAI(ser.output) } :
            /\ Len(back) = Len(ser.input)
            /\ \A k \in 1..Len(back) :
                  NumWithinHundredth(back[k].weight, ser.input[k].weight)

\* the rendering the Format B serializer is to give a segment
ClaimedPixAI(seg) ==
    IF seg.weight = One THEN EscapePixAI(seg.content)
    ELSE << "(" >> \o EscapePixAI(seg.content) \o << ":" >>
            \o NumToText(seg.weight) \o << ")" >>

\* C10: serialize_b renders each kept segment as its escaped content alone
\* if and only if its weight is exactly 1, and otherwise as
\* "(" escaped content ":" weight ")" with the segment's own weight, for
\* every weight, 0 included.
C10_PixAIRendering ==
    SerDone("segmentsToPixAI") =>
        \E kept \in { SelectSeq(ser.input, HasContent) } :
            ser.output = JoinComma([k \in 1..Len(kept) |-> ClaimedPixAI(kept[k])])

-----------------------------------------------------------------------------
(* Claims about the serializers, continued *)

\* the rendering the Format A serializer is to give a segment
ClaimedNovelAI(seg) ==
    IF seg.type = "text" \/ seg.weight = One THEN seg.content
    ELSE NumToText(seg.weight) \o << ":", ":" >> \o seg.content \o << ":", ":" >>

\* every segment of the list has a content that is not blank
AllHaveContent(segs) == \A k \in 1..Len(segs) : HasContent(segs[k])

\* C11: for a list of segments with non-blank contents, serialize_a gives
\* the renderings of the segments joined with ", " in sequence order, where a
\* segment of plain-text kind or of weight exactly 1 is rendered as its
\* content, unescaped, and any other as weight "::" content "::".
C11_NovelAIRendering ==
    (SerDone("segmentsToNovelAI") /\ AllHaveContent(ser.input)) =>
        ser.output =
            JoinComma([k \in 1..Len(ser.input) |-> ClaimedNovelAI(ser.input[k])])

\* a weighted tag with parentheses, then a plain one of weight 2, rendered
C11_Witness ==
    /\ SerDone("segmentsToNovelAI")
    /\ Len(ser.input) = 2
    /\ ser.input[1].type = "weight" /\ ser.input[1].weight = Norm(125, 2)
    /\ ser.input[1].content = << "(", "t", ")" >>
    /\ ser.input[2].type = "text" /\ ser.input[2].weight = Norm(2, 0)
    /\ ser.input[2].content = << "t" >>
    /\ ser.output = << "1", ".", "2", "5", ":", ":", "(", "t", ")", ":", ":",
                       ",", " ", "t" >>

\* C12: both serializers skip the segments whose trimmed content is empty:
\* the output for a list is the output for the list without these segments,
\* so that they add neither a rendered tag nor a separator.
C12_BlankSegmentsSkipped ==
    /\ SerDone("segmentsToPixAI") =>
          ser.output = SegmentsToPixAI(SelectSeq(ser.input, HasContent))
    /\ SerDone("segmentsToNovelAI") =>
          ser.output = SegmentsToNovelAI(SelectSeq(ser.input, HasContent))

-----------------------------------------------------------------------------
(* Claims about the emitted segments *)

\* C13: every segment emitted by scan_a or scan_b has a content that is not
\* empty after trimming; this includes the segment of an explicit override,
\* whose tag part may be blank as in "( :1.5)".
C13_ContentNeverBlank ==
    (InA \/ InB) => \A k \in 1..Len(scan.segments) : HasContent(scan.segments[k])

\* C14: every segment emitted by scan_a or scan_b is of kind "text" if and
\* only if its weight is exactly 1, and of kind "weight" otherwise; this
\* includes the segment of an explicit override such as "(tag:1)".
C14_KindIffWeightOne ==
    (InA \/ InB) =>
        \A k \in 1..Len(scan.segments) :
            scan.segments[k].type = TypeOf(scan.segments[k].weight)

-----------------------------------------------------------------------------
(* Claims about the conversion, continued *)

\* the text is empty or made of blanks only
IsBlank(t) == \A k \in 1..Len(t) : IsSpace(t[k])

\* C15: whenever the source text is empty or made of blanks only and the
\* negative source is empty, in either direction, the conversion has given an
\* empty segment sequence, an empty result text and an empty negative result
\* text.
C15_BlankSourceGivesNothing ==
    (IsBlank(sourceText) /\ sourceNegativeText = << >>) =>
        /\ segments = << >>
        /\ resultText = << >>
        /\ resultNegativeText = << >>

\* a source of two blanks has been converted in the direction PIX_TO_NAI
C15_Witness ==
    /\ direction = "PIX_TO_NAI"
    /\ sourceText = << " ", " " >>
    /\ sourceNegativeText = << >>
    /\ segments = << >>
    /\ resultText = << >>

-----------------------------------------------------------------------------
(* Claims about malformed numbers and termination *)

\* a character a number is written with
IsNumberChar(c) == IsDigit(c) \/ c = "."

\* lit is a number of the shape digits, or digits "." digits
IsWellFormedNumber(lit) ==
    \E k \in { DigitRun(lit, 1) } :
        /\ k > 0
        /\ \/ k = Len(lit)
           \/ /\ HasAt(lit, k + 1, << "." >>)
              /\ k + 1 < Len(lit)
              /\ DigitRun(lit, k + 2) = Len(lit) - k - 1

\* the "::" taken at this step of scan_a ends a run of digits and dots that
\* is not a number: the characters before the matched token belong to the
\* run and were refused as the start of a token
C16_MalformedTokenA ==
    /\ InLoopA("token")
    /\ scan.i > 0
    /\ IsNumberChar(scan.text[scan.i])

\* C16: a weight token with a malformed number is treated as if it had no
\* number.  In scan_a a "::" that ends a malformed run of digits and dots
\* ("1.::", "1.5.2::") sets the base weight to 1.0 as a bare "::" does, no
\* part of the run reaching the base weight; in scan_b only a group with a
\* well-formed number after the colon gives an override segment.
C16_MalformedNumbers ==
    [][ /\ C16_MalformedTokenA =>
              /\ scan'.activeBaseWeight = One
              /\ scan'.curlyDepth = 0
              /\ scan'.squareDepth = 0
        /\ InB =>
              \A k \in 1..Len(scan'.segments) :
                  scan'.segments[k].raw[1] = "(" =>
                      IsWellFormedNumber(OverrideLiteral(scan'.segments[k].raw))
      ]_vars

\* the length of the control token or override matched at the position, 0 if
\* there is none
C17_TokenLen ==
    IF InA THEN MatchAt(scan).len
    ELSE IF CharAt(scan) = "(" THEN ExplicitAt(scan).len
    ELSE 0

\* an iteration of the loop: the position strictly advances, by the length
\* of the matched token, by 2 for an escape or by 1, and stays within the text
C17_Iteration ==
    /\ scan'.text = scan.text
    /\ scan'.pc = "loop"
    /\ scan'.i > scan.i
    /\ scan'.i <= Len(scan.text)
    /\ scan'.i - scan.i =
          IF C17_TokenLen > 0 THEN C17_TokenLen
          ELSE IF InB /\ CharAt(scan) = "\\" /\ scan.i + 1 < Len(scan.text) THEN 2
          ELSE 1

\* the step at the end of the input: the final flush, then the return
C17_Return ==
    /\ scan'.pc = "done"
    /\ scan'.buffer = << >>
    /\ Len(scan'.segments) =
          Len(scan.segments) + (IF Trim(scan.buffer) = << >> THEN 0 ELSE 1)

\* C17: scan_a and scan_b are total.  While a scan has not returned, the
\* step it takes next changes its state; every iteration of the loop
\* strictly advances the position (by 1, by 2 for an escape, by the length
\* of a matched token) without passing the end of the text, so that at most
\* Len(text) iterations are made; at the end of the text the final flush is
\* done and the scan returns.
C17_ScannersTotal ==
    /\ []((InA \/ InB) => scan.i <= Len(scan.text))
    /\ []((InA /\ scan.pc = "loop") => StepA(scan) # scan)
    /\ []((InB /\ scan.pc = "loop") => StepB(scan) # scan)
    /\ [][ /\ (scan.pc = "loop" /\ scan.i < Len(scan.text)) => C17_Iteration
           /\ (scan.pc = "loop" /\ scan.i = Len(scan.text)) => C17_Return
         ]_vars

\* scan_b has returned from a text with an override and a trailing backslash
C17_Witness ==
    /\ InB
    /\ scan.pc = "done"
    /\ scan.text = << "(", "t", ":", "2", ")", "\\" >>
    /\ scan.i = 6
    /\ Len(scan.segments) = 2

-----------------------------------------------------------------------------
(* Claims about the converter's handlers *)

\* C18: a toggle switches the direction to the other value and makes the
\* result text and the negative result text held before it the new source
\* text and negative source text; once the conversion has run again, the
\* result fields and the segments are the conversion of the new source
\* fields in the new direction.
C18_ToggleFeedsResultsBack ==
    [][ direction' # direction =>
          /\ direction' = OtherDirection(direction)
          /\ sourceText' = resultText
          /\ sourceNegativeText' = resultNegativeText
          /\ \E out \in { Convert(direction', resultText, resultNegativeText) } :
                /\ resultText' = out.resultText
                /\ resultNegativeText' = out.resultNegativeText
                /\ segments' = out.segments
      ]_vars

\* "2::t" was typed and converted to "(t:2)"; the toggle made this the
\* source, which converts back to "2::t::"
C18_Witness ==
    /\ direction = "PIX_TO_NAI"
    /\ events = 3
    /\ sourceText = << "(", "t", ":", "2", ")" >>
    /\ sourceNegativeText = << >>
    /\ resultText = << "2", ":", ":", "t", ":", ":" >>

-----------------------------------------------------------------------------
(* Claims about commas *)

\* the weight a flush would give the buffered tag in this state
C20_AmbientWeight(st) ==
    IF st.call = "parseNovelAI" THEN FinalWeightA(st) ELSE FinalWeightB(st)

\* the weight state: the depth counters and, in scan_a, the base weight
C20_WeightState(st) ==
    IF st.call = "parseNovelAI"
    THEN << st.curlyDepth, st.squareDepth, st.activeBaseWeight >>
    ELSE << st.parenDepth, st.squareDepth >>

\* the step reads a comma or a character of a tag
C20_CommaOrTagStep ==
    \/ InLoopA(",") \/ InLoopA("normal")
    \/ InLoopB(",") \/ InLoopB("normal") \/ InLoopB("escape")

\* C20: in both scanners a comma ends the current tag (the buffered tag, if
\* not blank, is emitted with the ambient weight and the buffer is emptied)
\* and changes neither the base weight nor a depth counter, and neither does
\* a character of a tag; so all tags of a run with commas only between them
\* get the same weight: scan_a("t, t") yields two plain segments of weight
\* 1.0 and scan_b("(t,t") gives both tags the weight 1.1.
C20_CommaKeepsWeightState ==
    [][ /\ C20_CommaOrTagStep =>
              /\ C20_WeightState(scan') = C20_WeightState(scan)
              /\ C20_AmbientWeight(scan') = C20_AmbientWeight(scan)
        /\ (InLoopA(",") \/ InLoopB(",")) =>
              /\ scan'.buffer = << >>
              /\ scan'.i = scan.i + 1
              /\ IF Trim(scan.buffer) = << >> THEN scan'.segments = scan.segments
                 ELSE /\ EmittedOne
                      /\ LastSeg(scan').weight = C20_AmbientWeight(scan)
                      /\ SubSeq(scan'.segments, 1, Len(scan.segments)) = scan.segments
        /\ (scan'.pc = "done" /\ InA /\ scan.text = << "t", ",", " ", "t" >>)
              => scan'.segments = << Segment("text", << "t" >>, << "t" >>, One),
                                     Segment("text", << "t" >>, << "t" >>, One) >>
        /\ (scan'.pc = "done" /\ InB /\ scan.text = << "(", "t", ",", "t" >>)
              => /\ Len(scan'.segments) = 2
                 /\ scan'.segments[1].weight = Norm(11, 1)
                 /\ scan'.segments[2].weight = Norm(11, 1)
      ]_vars

\* scan_b has returned from "(t,t" with two segments of weight 1.1
C20_Witness ==
    /\ InB
    /\ scan.pc = "done"
    /\ scan.text = << "(", "t", ",", "t" >>
    /\ Len(scan.segments) = 2
    /\ scan.segments[1].weight = Norm(11, 1)
    /\ scan.segments[2].weight = Norm(11, 1)

-----------------------------------------------------------------------------
(* Claims about unmatched closing brackets in the NovelAI format *)

\* a <= b for numbers m * 10^(-e)
NumLeq(a, b) ==
    \E s \in { IF a.e > b.e THEN a.e ELSE b.e } :
        a.m * Pow(10, s - a.e) <= b.m * Pow(10, s - b.e)

NumLess(a, b) == NumLeq(a, b) /\ a # b

\* the step reads a closing bracket that no opening bracket matches
C21_UnmatchedCurly == InLoopA("}") /\ scan.curlyDepth <= 0
C21_UnmatchedSquare == InLoopA("]") /\ scan.squareDepth <= 0

\* C21: in scan_a an unmatched closing bracket, "}" or "]", drives its depth
\* counter negative and leaves the resolved weight of the tags that follow
\* below what it was before the bracket.
C21_UnmatchedCloserLowers ==
    [][ /\ C21_UnmatchedCurly =>
              /\ scan'.curlyDepth = scan.curlyDepth - 1
              /\ NumLess(FinalWeightA(scan'), FinalWeightA(scan))
        /\ C21_UnmatchedSquare =>
              /\ scan'.squareDepth = scan.squareDepth - 1
              /\ NumLess(FinalWeightA(scan'), FinalWeightA(scan))
      ]_vars

\* C21, amended: in scan_a an unmatched closing bracket drives its depth
\* counter negative and the base weight is kept; the tags that follow get
\* base * 1.05^curly * 0.95^square rounded, the negative depth being the
\* exponent, so that an unmatched "}" never raises and an unmatched "]" never
\* lowers their weight: "}t" gives 0.95, "]t" gives 1.05, "2::}t" gives 1.9
\* and "2::]t" gives 2.11.
C21_UnmatchedCloserDivides ==
    [][ /\ C21_UnmatchedCurly =>
              /\ scan'.curlyDepth = scan.curlyDepth - 1
              /\ scan'.curlyDepth < 0
              /\ scan'.activeBaseWeight = scan.activeBaseWeight
              /\ NumLeq(FinalWeightA(scan'), FinalWeightA(scan))
        /\ C21_UnmatchedSquare =>
              /\ scan'.squareDepth = scan.squareDepth - 1
              /\ scan'.squareDepth < 0
              /\ scan'.activeBaseWeight = scan.activeBaseWeight
              /\ NumLeq(FinalWeightA(scan), FinalWeightA(scan'))
        /\ (InA /\ EmittedOne) => C7_FlushA
        /\ (InA /\ scan'.pc = "done" /\ scan.text = << "}", "t" >>)
              => LastSeg(scan').weight = Hundredths(95)
        /\ (InA /\ scan'.pc = "done" /\ scan.text = << "]", "t" >>)
              => LastSeg(scan').weight = Hundredths(105)
        /\ (InA /\ scan'.pc = "done" /\ scan.text = << "2", ":", ":", "}", "t" >>)
              => LastSeg(scan').weight = Hundredths(190)
        /\ (InA /\ scan'.pc = "done" /\ scan.text = << "2", ":", ":", "]", "t" >>)
              => LastSeg(scan').weight = Hundredths(211)
      ]_vars

\* scan_a has returned from "2::]t": the square depth is -1 and t has 2.11
C21_Witness ==
    /\ InA
    /\ scan.pc = "done"
    /\ scan.text = << "2", ":", ":", "]", "t" >>
    /\ scan.squareDepth = -1
    /\ Len(scan.segments) = 1
    /\ scan.segments[1].weight = Hundredths(211)

-----------------------------------------------------------------------------
(* Claims about escapes in emitted contents *)

RECURSIVE C22_CollapseEscapes(_)
\* t with every escape pair, a backslash and the character after it,
\* replaced by that character
C22_CollapseEscapes(t) ==
    IF t = << >> THEN << >>
    ELSE IF Len(t) >= 2 /\ t[1] = "\\"
    THEN << t[2] >> \o C22_CollapseEscapes(SubSeq(t, 3, Len(t)))
    ELSE << Head(t) >> \o C22_CollapseEscapes(Tail(t))

\* the tag as it was written in the input: the trimmed buffer of a flushed
\* segment, the trimmed text before the last colon of an override
C22_WrittenTag(seg) ==
    IF seg.raw[1] = "("
    THEN Trim(SubSeq(seg.raw, 2, Len(seg.raw) - Len(OverrideLiteral(seg.raw)) - 2))
    ELSE seg.raw

\* C22: every segment emitted by scan_b has un-escaped content: the content
\* is the written tag with each escape pair, whichever character follows the
\* backslash, collapsed to that character, so that no backslash of an escape
\* pair is left in it.
C22_ContentUnescaped ==
    InB => \A k \in 1..Len(scan.segments) :
              scan.segments[k].content =
                  C22_CollapseEscapes(C22_WrittenTag(scan.segments[k]))

-----------------------------------------------------------------------------
(* Round trips *)

\* a non-empty trimmed text of letters, digits and spaces
IsWordTag(t) ==
    /\ t # << >>
    /\ Trim(t) = t
    /\ \A k \in 1..Len(t) : t[k] = "t" \/ IsDigit(t[k]) \/ IsSpace(t[k])

\* the sequence of (content, weight) pairs of a segment list
ContentWeightPairs(segs) ==
    [k \in 1..Len(segs) |-> << segs[k].content, segs[k].weight >>]

\* C23: for a segment list whose contents are non-empty trimmed texts of
\* letters, digits and spaces and whose weights are non-negative 2-decimal
\* numbers, the kind being plain-text exactly when the weight is 1, scanning
\* the Format A serialization with scan_a gives back the same sequence of
\* (content, weight) pairs.
C23_RoundTripA ==
    ( /\ SerDone("segmentsToNovelAI")
      /\ \A k \in 1..Len(ser.input) :
            /\ IsWordTag(ser.input[k].content)
            /\ IsTwoDecimalWeight(ser.input[k].weight)
            /\ ser.input[k].type = TypeOf(ser.input[k].weight) )
      => ContentWeightPairs(ParseNovelAI(ser.output)) = ContentWeightPairs(ser.input)

\* C24: in the direction A to B, scanning the positive result text with
\* scan_b gives the same sequence of (content, weight) pairs as the segments
\* of scan_a(source) whose weight is not negative.
C24_MeaningPreserved ==
    direction = "NAI_TO_PIX" =>
        ContentWeightPairs(ParsePixAI(resultText)) =
            ContentWeightPairs(SelectSeq(ParseNovelAI(sourceText), IsPositiveSeg))

=============================================================================
